---- MODULE Spec2Model ----
(***************************************************************************)
(* Model of mcp-server-axiom-js.                                           *)
(*                                                                         *)
(* Part I   strings as sequences of one-character strings, and the string  *)
(*          conversions the code uses (split, toUpperCase, parseInt).      *)
(* Part II  helpers/convertToSchemaJSON.js: validation, path insertion and *)
(*          text rendering, run as one invocation (specification Spec).    *)
(* Part III the launcher, the configuration and the rate limiters          *)
(*          (specification ServerSpec).                                    *)
(***************************************************************************)
EXTENDS Integers, Sequences, FiniteSets, TLC

VARIABLES
    \* ---- one invocation of convertSchemaToJSON / getStringifiedSchema ----
    fields,           \* the argument of convertSchemaToJSON (raw descriptors)
    pc,               \* position of the invocation
    validatedFields,  \* result of fieldsSchema.parse
    defsCreated,      \* whether `const defs = {}` has run
    defs,             \* the tree under construction (own properties, creation order)
    idx,              \* number of descriptors the forEach has processed
    prevDefs,         \* history: defs as it was before the last insertion
    text,             \* result of getStringifiedSchema(defs)
    \* ---- the server process ----
    spc,              \* position of the server process
    configFile,       \* parsed JSON of the file named by process.argv[2]
    env,              \* process.env
    config,           \* the config object of index.js
    queryLimiter,     \* RateLimiter state
    datasetsLimiter,  \* RateLimiter state
    now,              \* the clock, in whole seconds since the process started
    lastCall,         \* the tool and the outcome of the latest tool invocation
    passedLog         \* history: per limiter, the passed calls of every second

flattenVars == <<fields, pc, validatedFields, defsCreated, defs, idx, prevDefs, text>>
serverVars ==
    <<spc, configFile, env, config, queryLimiter, datasetsLimiter, now, lastCall, passedLog>>
vars == <<fields, pc, validatedFields, defsCreated, defs, idx, prevDefs, text,
          spc, configFile, env, config, queryLimiter, datasetsLimiter, now, lastCall,
          passedLog>>

(***************************************************************************)
(* Part I. Strings.                                                        *)
(***************************************************************************)

\* Bounds of the model.
MaxFields == 3

Dot == "."
NL == "\n"
Space == " "

RECURSIVE Repeat(_, _)
\* String.prototype.repeat for a one-character string.
Repeat(c, n) == IF n <= 0 THEN <<>> ELSE <<c>> \o Repeat(c, n - 1)

RECURSIVE SplitAt(_, _, _)
\* String.prototype.split(sep) for a one-character separator: `acc` is the
\* segment being read. "a.b" -> <<"a","b">>, "a." -> <<"a","">>, "" -> <<"">>.
SplitAt(s, sep, acc) ==
    IF s = <<>> THEN <<acc>>
    ELSE IF Head(s) = sep THEN <<acc>> \o SplitAt(Tail(s), sep, <<>>)
    ELSE SplitAt(Tail(s), sep, Append(acc, Head(s)))

Split(s, sep) == SplitAt(s, sep, <<>>)

RECURSIVE Join(_, _)
\* Array.prototype.join(sep) over strings; the empty array joins to "".
Join(ss, sep) ==
    IF ss = <<>> THEN <<>>
    ELSE IF Len(ss) = 1 THEN ss[1]
    ELSE ss[1] \o sep \o Join(Tail(ss), sep)

Digits == {"0", "1", "2", "3", "4", "5", "6", "7", "8", "9"}

DigitValue(c) ==
    CASE c = "0" -> 0 [] c = "1" -> 1 [] c = "2" -> 2 [] c = "3" -> 3
      [] c = "4" -> 4 [] c = "5" -> 5 [] c = "6" -> 6 [] c = "7" -> 7
      [] c = "8" -> 8 [] c = "9" -> 9

RECURSIVE DecimalValue(_, _)
DecimalValue(s, acc) ==
    IF s = <<>> THEN acc ELSE DecimalValue(Tail(s), 10 * acc + DigitValue(Head(s)))

(***************************************************************************)
(* Part II. helpers/convertToSchemaJSON.js                                 *)
(***************************************************************************)

\* ---- JavaScript values of the raw descriptors ----
Undefined == [t |-> "undefined", s |-> <<>>, b |-> FALSE]
JString(s) == [t |-> "string", s |-> s, b |-> FALSE]
JBoolean(b) == [t |-> "boolean", s |-> <<>>, b |-> b]
JNumber == [t |-> "number", s |-> <<>>, b |-> FALSE]

\* ---- zod combinators, as far as fieldSchema uses them ----
\* z.string(): the value must be a string (undefined is rejected).
ZString(v) == [ok |-> v.t = "string", v |-> v]

\* z.string().optional().default(d): undefined becomes d, "" stays "".
ZStringDefault(v, d) ==
    IF v.t = "undefined" THEN [ok |-> TRUE, v |-> JString(d)] ELSE ZString(v)

\* z.boolean().optional().default(d)
ZBooleanDefault(v, d) ==
    IF v.t = "undefined" THEN [ok |-> TRUE, v |-> JBoolean(d)]
    ELSE [ok |-> v.t = "boolean", v |-> v]

TypeAny == <<"a", "n", "y">>

\* fieldSchema.parse(f): [ok, v] with v the defaulted descriptor.
fieldSchema(f) ==
    LET n == ZString(f.name)
        ty == ZStringDefault(f.type, TypeAny)
        u == ZStringDefault(f.unit, <<>>)
        h == ZBooleanDefault(f.hidden, FALSE)
        d == ZStringDefault(f.description, <<>>)
    IN  [ok |-> n.ok /\ ty.ok /\ u.ok /\ h.ok /\ d.ok,
         v |-> [name |-> n.v, type |-> ty.v, unit |-> u.v, hidden |-> h.v,
                description |-> d.v]]

\* Mutant: an array schema that checks only the first element.
fieldsSchemaFirstOnly(fs) ==
    [ok |-> Len(fs) = 0 \/ fieldSchema(fs[1]).ok,
     v |-> [i \in 1..Len(fs) |-> fieldSchema(fs[i]).v]]

\* fieldsSchema.parse(fs) = z.array(fieldSchema).parse(fs): every element must
\* parse; the result is the list of defaulted descriptors.
fieldsSchema(fs) ==
    [ok |-> \A i \in 1..Len(fs) : fieldSchema(fs[i]).ok,
     v |-> [i \in 1..Len(fs) |-> fieldSchema(fs[i]).v]]

\* ---- the tree: the own properties of defs and of the objects below it ----
\* defs is the sequence, in creation order, of the own properties reachable
\* from the root: [path, leaf, type]; path is the sequence of keys from the
\* root, leaf says the value is a type string (else a nested object).
Entry(path, leaf, type) == [path |-> path, leaf |-> leaf, type |-> type]

IsProperPrefix(p, q) == Len(p) < Len(q) /\ SubSeq(q, 1, Len(p)) = p

HasOwn(t, p) == \E i \in 1..Len(t) : t[i].path = p

OwnIndex(t, p) == CHOOSE i \in 1..Len(t) : t[i].path = p

\* Property names every plain object inherits from Object.prototype with a
\* function value, among the key names the inputs use.
ObjectPrototypeKeys == { <<"v", "a", "l", "u", "e", "O", "f">> }

\* Variant (not the code): a lookup that sees own properties only.
GetPropOwnOnly(t, p, key) ==
    LET q == p \o <<key>> IN
    IF HasOwn(t, q)
    THEN LET e == t[OwnIndex(t, q)] IN
         IF e.leaf THEN [kind |-> "string", s |-> e.type]
         ELSE [kind |-> "object", s |-> <<>>]
    ELSE [kind |-> "undefined", s |-> <<>>]

\* current[key] where current is the tree object at path p: the own property
\* when there is one, else the property inherited from Object.prototype, else
\* undefined.
GetProp(t, p, key) ==
    LET q == p \o <<key>> IN
    IF HasOwn(t, q)
    THEN LET e == t[OwnIndex(t, q)] IN
         IF e.leaf THEN [kind |-> "string", s |-> e.type]
         ELSE [kind |-> "object", s |-> <<>>]
    ELSE IF key \in ObjectPrototypeKeys THEN [kind |-> "function", s |-> <<>>]
    ELSE [kind |-> "undefined", s |-> <<>>]

\* JavaScript truthiness and typeof of such a value.
Truthy(v) == v.kind \in {"object", "function"} \/ (v.kind = "string" /\ v.s # <<>>)
TypeOf(v) == v.kind

RECURSIVE DropBelow(_, _)
\* The entries of t that are not strictly below path q.
DropBelow(t, q) ==
    IF t = <<>> THEN <<>>
    ELSE IF IsProperPrefix(q, Head(t).path) THEN DropBelow(Tail(t), q)
    ELSE <<Head(t)>> \o DropBelow(Tail(t), q)

\* current[key] = value where current is the tree object at path p: a new key
\* is appended; an existing key keeps its place, takes the new value, and the
\* object it held (with everything below it) is no longer reachable.
SetProp(t, p, key, leaf, type) ==
    LET q == p \o <<key>> IN
    IF HasOwn(t, q)
    THEN DropBelow([t EXCEPT ![OwnIndex(t, q)] = Entry(q, leaf, type)], q)
    ELSE Append(t, Entry(q, leaf, type))

\* `current` is either the tree object at a path, or a value that is not part
\* of the tree: a type string, an inherited function, or the fresh {} of
\* `|| {}`. A write through the latter never reaches defs.
OnTree(p) == [on |-> TRUE, path |-> p]
OffTree == [on |-> FALSE, path |-> <<>>]

\* Mutant: `field.type` used as it is.
TypeOrAnyNoDefault(ty) == ty

\* field.type || "any"
TypeOrAny(ty) == IF ty = <<>> THEN TypeAny ELSE ty

\* Mutant: the last segment is always assigned.
StepAlwaysAssign(t, p, key, last, type) ==
    LET v == GetProp(t, p, key) IN
    IF ~Truthy(v) THEN SetProp(t, p, key, last, IF last THEN type ELSE <<>>)
    ELSE IF last THEN SetProp(t, p, key, TRUE, type)
    ELSE t

\* Mutant: the object-to-type overwrite is missing.
StepNoCollapse(t, p, key, last, type) ==
    LET v == GetProp(t, p, key) IN
    IF ~Truthy(v) THEN SetProp(t, p, key, last, IF last THEN type ELSE <<>>)
    ELSE t

\* Mutant: an intermediate segment that holds a type string is replaced by {}.
StepOverwritePrefix(t, p, key, last, type) ==
    LET v == GetProp(t, p, key) IN
    IF ~Truthy(v) THEN SetProp(t, p, key, last, IF last THEN type ELSE <<>>)
    ELSE IF last /\ TypeOf(v) = "object" THEN SetProp(t, p, key, TRUE, type)
    ELSE IF ~last /\ TypeOf(v) = "string" THEN SetProp(t, p, key, FALSE, <<>>)
    ELSE t

\* The if / else-if of one path.forEach step, current being the tree object
\* at path p and `last` being index === path.length - 1.
Step(t, p, key, last, type) ==
    LET v == GetProp(t, p, key) IN
    IF ~Truthy(v) THEN SetProp(t, p, key, last, IF last THEN type ELSE <<>>)
    ELSE IF last /\ TypeOf(v) = "object" THEN SetProp(t, p, key, TRUE, type)
    ELSE t

\* current = current[key] || {}
NextCurrent(t, p, key) ==
    IF GetProp(t, p, key).kind = "object" THEN OnTree(p \o <<key>>) ELSE OffTree

RECURSIVE Walk(_, _, _, _, _)
\* path.forEach((key, index) => ...) from segment `index` (1-based) on.
Walk(t, path, index, current, type) ==
    IF index > Len(path) THEN t
    ELSE IF ~current.on THEN t
    ELSE LET key == path[index]
             t1 == Step(t, current.path, key, index = Len(path), type)
         IN  Walk(t1, path, index + 1, NextCurrent(t1, current.path, key), type)

\* The body of validatedFields.forEach for one descriptor.
InsertDescriptor(t, field) ==
    Walk(t, Split(field.name.s, Dot), 1, OnTree(<<>>), TypeOrAny(field.type.s))

\* ---- Object.entries ----
RECURSIVE DigitsLess(_, _)
\* Order of two digit strings of the same length.
DigitsLess(x, y) ==
    IF x = <<>> THEN FALSE
    ELSE IF Head(x) # Head(y) THEN DigitValue(Head(x)) < DigitValue(Head(y))
    ELSE DigitsLess(Tail(x), Tail(y))

\* Numeric order of two canonical decimal strings.
IndexLess(x, y) == Len(x) < Len(y) \/ (Len(x) = Len(y) /\ DigitsLess(x, y))

\* 2^32 - 1, the first integer that is not an array index.
IndexLimit == <<"4", "2", "9", "4", "9", "6", "7", "2", "9", "5">>

\* A key is an array index when it is the canonical decimal form of an
\* integer in 0 .. 2^32 - 2.
IsArrayIndex(key) ==
    /\ key # <<>>
    /\ \A i \in 1..Len(key) : key[i] \in Digits
    /\ (Len(key) = 1 \/ key[1] # "0")
    /\ IndexLess(key, IndexLimit)

LastKey(e) == e.path[Len(e.path)]

RECURSIVE InsertByIndex(_, _)
InsertByIndex(e, sorted) ==
    IF sorted = <<>> THEN <<e>>
    ELSE IF IndexLess(LastKey(e), LastKey(Head(sorted)))
         THEN <<e>> \o sorted
         ELSE <<Head(sorted)>> \o InsertByIndex(e, Tail(sorted))

RECURSIVE SortByIndex(_)
SortByIndex(es) ==
    IF es = <<>> THEN <<>> ELSE InsertByIndex(Head(es), SortByIndex(Tail(es)))

\* The own properties of the tree object at path p, in creation order.
ChildEntries(t, p) ==
    SelectSeq(t, LAMBDA e : Len(e.path) = Len(p) + 1 /\ SubSeq(e.path, 1, Len(p)) = p)

\* Variant (not the code): the own properties in creation order, whatever
\* their names.
ObjectEntriesCreationOrder(t, p) == ChildEntries(t, p)

\* Object.entries(obj) for the tree object at path p: the array-index keys in
\* ascending numeric order, then the other keys in creation order.
ObjectEntries(t, p) ==
    LET own == ChildEntries(t, p) IN
    SortByIndex(SelectSeq(own, LAMBDA e : IsArrayIndex(LastKey(e))))
        \o SelectSeq(own, LAMBDA e : ~IsArrayIndex(LastKey(e)))

\* Mutant: the nested block is rendered at the indentation of its parent.
NestedIndentSame(indent) == indent

\* The indent argument of the recursive call.
NestedIndent(indent) == indent + 2

\* The indentation of the closing brace: " ".repeat(indent - 2).
ClosingIndent(indent) == indent - 2

RECURSIVE getStringifiedSchema(_, _, _)
\* getStringifiedSchema(value, indent), value being the tree object at path p.
getStringifiedSchema(t, p, indent) ==
    LET entries == ObjectEntries(t, p)
        spaces == Repeat(Space, indent)
        line(e) ==
            IF e.leaf
            THEN spaces \o LastKey(e) \o <<":", Space>> \o e.type \o <<";">>
            ELSE spaces \o LastKey(e) \o <<":", Space>>
                     \o getStringifiedSchema(t, e.path, NestedIndent(indent)) \o <<";">>
    IN  <<"{", NL>>
            \o Join([i \in 1..Len(entries) |-> line(entries[i])], <<NL>>)
            \o <<NL>> \o Repeat(Space, ClosingIndent(indent)) \o <<"}">>

\* ---- the inputs of one invocation ----
TypeInt == <<"i", "n", "t">>
KeyValueOf == <<"v", "a", "l", "u", "e", "O", "f">>

\* The names of the descriptors. A segment that names an inherited property is
\* always the last one, so that no insertion writes through an object shared
\* by way of Object.prototype.
FieldNames ==
    { <<"a">>, <<"b">>, <<"1">>, <<"a", Dot, "b">>, <<"a", Dot, "b", Dot, "c">>,
      KeyValueOf, <<"a", Dot>> \o KeyValueOf }

FieldTypes == { Undefined, JString(TypeInt) }

RawField(name, type, hidden) ==
    [name |-> name, type |-> type, unit |-> Undefined, hidden |-> hidden,
     description |-> Undefined]

\* Valid descriptors (every name with an absent and with a declared type, some
\* with the empty type, one with `hidden` given), and one descriptor for each
\* way of being invalid: no name, a type that is no string, a `hidden` that is
\* no boolean.
RawFields ==
    { RawField(JString(n), ty, Undefined) : n \in FieldNames, ty \in FieldTypes }
    \cup { RawField(JString(<<"a">>), JString(<<>>), Undefined),
           RawField(JString(<<"a", Dot, "b">>), JString(<<>>), Undefined),
           RawField(JString(<<"b">>), JString(<<>>), JBoolean(TRUE)) }
    \cup { RawField(Undefined, JString(TypeInt), Undefined),
           RawField(JString(<<"a">>), JNumber, Undefined),
           RawField(JString(<<"b">>), Undefined, JString(<<"y">>)) }

RECURSIVE SeqsUpTo(_, _)
SeqsUpTo(S, n) ==
    IF n = 0 THEN { <<>> }
    ELSE LET shorter == SeqsUpTo(S, n - 1) IN
         shorter \cup { Append(q, x) : q \in { r \in shorter : Len(r) = n - 1 }, x \in S }

(***************************************************************************)
(* Part III. The launcher, index.js's configuration and the rate limiters. *)
(***************************************************************************)
MaxSeconds == 2

LowerCase == <<"a", "b", "c", "d", "e", "f", "g", "h", "i", "j", "k", "l", "m",
               "n", "o", "p", "q", "r", "s", "t", "u", "v", "w", "x", "y", "z">>
UpperCase == <<"A", "B", "C", "D", "E", "F", "G", "H", "I", "J", "K", "L", "M",
               "N", "O", "P", "Q", "R", "S", "T", "U", "V", "W", "X", "Y", "Z">>

\* String.prototype.toUpperCase, character by character.
ToUpperCase(str) ==
    [i \in 1..Len(str) |->
        IF \E k \in 1..26 : LowerCase[k] = str[i]
        THEN UpperCase[CHOOSE k \in 1..26 : LowerCase[k] = str[i]]
        ELSE str[i]]

DigitChar(d) == <<"0", "1", "2", "3", "4", "5", "6", "7", "8", "9">>[d + 1]

RECURSIVE NumberToString(_)
\* Number.prototype.toString for a non-negative integer.
NumberToString(n) ==
    IF n < 10 THEN <<DigitChar(n)>>
    ELSE NumberToString(n \div 10) \o <<DigitChar(n % 10)>>

RECURSIVE LeadingDigits(_)
LeadingDigits(str) ==
    IF str # <<>> /\ Head(str) \in Digits
    THEN <<Head(str)>> \o LeadingDigits(Tail(str))
    ELSE <<>>

\* parseInt(str) and parseFloat(str) for a string that starts with a digit
\* and holds no fraction: the value of its leading digits.
ParseInt(str) == DecimalValue(LeadingDigits(str), 0)
ParseFloat(str) == DecimalValue(LeadingDigits(str), 0)

\* ---- JSON values of the config file, and value.toString() ----
CfgString(str) == [t |-> "string", s |-> str, n |-> 0]
CfgNumber(n) == [t |-> "number", s |-> <<>>, n |-> n]
ValueToString(v) == IF v.t = "number" THEN NumberToString(v.n) ELSE v.s

\* ---- process.env ----
AxiomPrefix == <<"A", "X", "I", "O", "M", "_">>
AXIOM_TOKEN == <<"A", "X", "I", "O", "M", "_", "T", "O", "K", "E", "N">>
AXIOM_URL == <<"A", "X", "I", "O", "M", "_", "U", "R", "L">>
AXIOM_ORG_ID == <<"A", "X", "I", "O", "M", "_", "O", "R", "G", "_", "I", "D">>
AXIOM_QUERY_RATE == <<"A", "X", "I", "O", "M", "_", "Q", "U", "E", "R", "Y", "_", "R", "A", "T", "E">>
AXIOM_QUERY_BURST == <<"A", "X", "I", "O", "M", "_", "Q", "U", "E", "R", "Y", "_", "B", "U", "R", "S", "T">>
AXIOM_DATASETS_RATE == <<"A", "X", "I", "O", "M", "_", "D", "A", "T", "A", "S", "E", "T", "S", "_", "R", "A", "T", "E">>
AXIOM_DATASETS_BURST == <<"A", "X", "I", "O", "M", "_", "D", "A", "T", "A", "S", "E", "T", "S", "_", "B", "U", "R", "S", "T">>

DefaultUrl == <<"h", "t", "t", "p", "s", ":", "/", "/", "a", "p", "i", ".", "a", "x", "i", "o", "m", ".", "c", "o">>
DefaultNumber == <<"1">>

\* process.env[name]: [def, s]; def is FALSE for undefined.
EnvGet(e, name) ==
    IF name \in DOMAIN e THEN [def |-> TRUE, s |-> e[name]] ELSE [def |-> FALSE, s |-> <<>>]

\* process.env[name] = value
EnvSet(e, name, value) ==
    [x \in (DOMAIN e) \cup {name} |-> IF x = name THEN value ELSE e[x]]

\* process.env[name] || dflt : undefined and "" give dflt.
EnvOr(e, name, dflt) ==
    IF name \in DOMAIN e /\ e[name] # <<>> THEN e[name] ELSE dflt

\* `AXIOM_${key.toUpperCase()}`
EnvNameOfKey(key) == AxiomPrefix \o ToUpperCase(key)

RECURSIVE ApplyConfigEntries(_, _)
\* for (const [key, value] of Object.entries(config))
\*     process.env[`AXIOM_${key.toUpperCase()}`] = value.toString();
ApplyConfigEntries(e, entries) ==
    IF entries = <<>> THEN e
    ELSE ApplyConfigEntries(
             EnvSet(e, EnvNameOfKey(Head(entries).key), ValueToString(Head(entries).value)),
             Tail(entries))

\* The config object of index.js, read from process.env.
ConfigFromEnv(e) ==
    [token |-> EnvGet(e, AXIOM_TOKEN),
     url |-> EnvOr(e, AXIOM_URL, DefaultUrl),
     orgId |-> EnvGet(e, AXIOM_ORG_ID),
     queryRateLimit |-> ParseFloat(EnvOr(e, AXIOM_QUERY_RATE, DefaultNumber)),
     queryRateBurst |-> ParseInt(EnvOr(e, AXIOM_QUERY_BURST, DefaultNumber)),
     datasetsRateLimit |-> ParseFloat(EnvOr(e, AXIOM_DATASETS_RATE, DefaultNumber)),
     datasetsRateBurst |-> ParseInt(EnvOr(e, AXIOM_DATASETS_BURST, DefaultNumber))]

\* ---- RateLimiter({ tokensPerInterval, interval: "second" }) ----
\* The limiter and its token bucket: the bucket holds at most tokensPerInterval
\* tokens, starts full and drips tokensPerInterval tokens per second.
NewRateLimiter(tokensPerInterval, t) ==
    [tokensPerInterval |-> tokensPerInterval,
     bucketSize |-> tokensPerInterval,
     content |-> tokensPerInterval,
     lastDrip |-> t,
     curIntervalStart |-> t,
     tokensThisInterval |-> 0]

Min(x, y) == IF x < y THEN x ELSE y

\* TokenBucket.drip() at time t.
Drip(l, t) ==
    [l EXCEPT !.content = Min(l.content + (t - l.lastDrip) * l.tokensPerInterval,
                              l.bucketSize),
              !.lastDrip = t]

\* limiter.tryRemoveTokens(1) at time t: [ok, limiter].
TryRemoveTokens(l, t) ==
    IF 1 > l.bucketSize THEN [ok |-> FALSE, limiter |-> l]
    ELSE LET l1 == IF t < l.curIntervalStart \/ t - l.curIntervalStart >= 1
                   THEN [l EXCEPT !.curIntervalStart = t, !.tokensThisInterval = 0]
                   ELSE l
         IN  IF 1 > l1.tokensPerInterval - l1.tokensThisInterval
             THEN [ok |-> FALSE, limiter |-> l1]
             ELSE LET l2 == Drip(l1, t) IN
                  IF 1 > l2.content THEN [ok |-> FALSE, limiter |-> l2]
                  ELSE [ok |-> TRUE,
                        limiter |-> [l2 EXCEPT !.content = l2.content - 1,
                                               !.tokensThisInterval =
                                                   l2.tokensThisInterval + 1]]

\* tokensPerInterval of queryLimiter and of datasetsLimiter.
QueryTokensPerInterval(c) == c.queryRateBurst
DatasetsTokensPerInterval(c) == c.datasetsRateBurst

\* ---- the inputs of one start of the server ----
KeyToken == <<"t", "o", "k", "e", "n">>
KeyUrl == <<"u", "r", "l">>
KeyOrgId == <<"o", "r", "g", "I", "d">>
KeyQueryRate == <<"q", "u", "e", "r", "y", "R", "a", "t", "e">>
KeyQueryBurst == <<"q", "u", "e", "r", "y", "B", "u", "r", "s", "t">>
KeyDatasetsRate == <<"d", "a", "t", "a", "s", "e", "t", "s", "R", "a", "t", "e">>
KeyDatasetsBurst == <<"d", "a", "t", "a", "s", "e", "t", "s", "B", "u", "r", "s", "t">>

CfgEntry(key, value) == [key |-> key, value |-> value]

\* The README's example config.json, with short strings.
ExampleConfig ==
    << CfgEntry(KeyToken, CfgString(<<"t">>)),
       CfgEntry(KeyUrl, CfgString(<<"u">>)),
       CfgEntry(KeyOrgId, CfgString(<<"o">>)),
       CfgEntry(KeyQueryRate, CfgNumber(2)),
       CfgEntry(KeyQueryBurst, CfgNumber(5)),
       CfgEntry(KeyDatasetsRate, CfgNumber(1)),
       CfgEntry(KeyDatasetsBurst, CfgNumber(2)) >>

\* process.argv[2]: no file, a file that cannot be read or parsed, or a file
\* holding some of the example's entries.
NoConfigFile == [given |-> FALSE, readable |-> TRUE, entries |-> <<>>]
ConfigFiles ==
    { NoConfigFile, [given |-> TRUE, readable |-> FALSE, entries |-> <<>>] }
    \cup { [given |-> TRUE, readable |-> TRUE, entries |-> SubSeq(ExampleConfig, 1, n)] :
             n \in {0, 1, 3, 5, 7} }
    \cup { [given |-> TRUE, readable |-> TRUE,
            entries |-> <<ExampleConfig[1], ExampleConfig[k]>>] : k \in {4, 5, 7} }

EmptyEnv == [x \in {} |-> <<>>]

RECURSIVE EnvOf(_)
\* The environment holding the given <<name, value>> pairs.
EnvOf(pairs) ==
    IF pairs = <<>> THEN EmptyEnv
    ELSE EnvSet(EnvOf(Tail(pairs)), Head(pairs)[1], Head(pairs)[2])

\* The environment the process is started in.
InitialEnvs ==
    { EnvOf(tok \o qr \o qb \o db) :
        tok \in { <<>>, << <<AXIOM_TOKEN, <<"e">>>> >> },
        qr \in { <<>>, << <<AXIOM_QUERY_RATE, <<"1">>>> >>, << <<AXIOM_QUERY_RATE, <<"2">>>> >> },
        qb \in { <<>>, << <<AXIOM_QUERY_BURST, <<"2">>>> >>, << <<AXIOM_QUERY_BURST, <<>>>> >> },
        db \in { <<>>, << <<AXIOM_DATASETS_BURST, <<"2">>>> >> } }

NoLimiter == NewRateLimiter(0, 0)
NoConfig == ConfigFromEnv(EmptyEnv)
NoCall == [tool |-> "none", outcome |-> "none", removed |-> FALSE, upstream |-> FALSE]
NoPasses == [l \in {"query", "datasets"} |-> [t \in 0..MaxSeconds |-> 0]]

\* ---- the server process before it is looked at ----
ServerIdle ==
    /\ spc = "off"
    /\ configFile = NoConfigFile
    /\ env = EmptyEnv
    /\ config = NoConfig
    /\ queryLimiter = NoLimiter
    /\ datasetsLimiter = NoLimiter
    /\ now = 0
    /\ lastCall = NoCall
    /\ passedLog = NoPasses

\* ---- one invocation, step by step ----
Init ==
    /\ fields \in SeqsUpTo(RawFields, MaxFields)
    /\ pc = "start"
    /\ validatedFields = <<>>
    /\ defsCreated = FALSE
    /\ defs = <<>>
    /\ idx = 0
    /\ prevDefs = <<>>
    /\ text = <<>>
    /\ ServerIdle

\* const validatedFields = fieldsSchema.parse(fields); parse throws on failure.
ParseFields ==
    /\ pc = "start"
    /\ LET r == fieldsSchema(fields) IN
       IF r.ok
       THEN validatedFields' = r.v /\ pc' = "parsed"
       ELSE validatedFields' = validatedFields /\ pc' = "failed"
    /\ UNCHANGED <<fields, defsCreated, defs, idx, prevDefs, text>>
    /\ UNCHANGED serverVars

\* const defs = {};
CreateDefs ==
    /\ pc = "parsed"
    /\ defsCreated' = TRUE
    /\ defs' = <<>>
    /\ pc' = "forEach"
    /\ UNCHANGED <<fields, validatedFields, idx, prevDefs, text>>
    /\ UNCHANGED serverVars

\* One call of the validatedFields.forEach callback.
InsertField ==
    /\ pc = "forEach"
    /\ idx < Len(validatedFields)
    /\ prevDefs' = defs
    /\ defs' = InsertDescriptor(defs, validatedFields[idx + 1])
    /\ idx' = idx + 1
    /\ UNCHANGED <<fields, pc, validatedFields, defsCreated, text>>
    /\ UNCHANGED serverVars

\* return defs;
ReturnDefs ==
    /\ pc = "forEach"
    /\ idx = Len(validatedFields)
    /\ pc' = "returned"
    /\ UNCHANGED <<fields, validatedFields, defsCreated, defs, idx, prevDefs, text>>
    /\ UNCHANGED serverVars

\* getStringifiedSchema(convertSchemaToJSON(data.fields)) with the default indent.
Stringify ==
    /\ pc = "returned"
    /\ text' = getStringifiedSchema(defs, <<>>, 2)
    /\ pc' = "rendered"
    /\ UNCHANGED <<fields, validatedFields, defsCreated, defs, idx, prevDefs>>
    /\ UNCHANGED serverVars

Next ==
    \/ ParseFields
    \/ CreateDefs
    \/ InsertField
    \/ ReturnDefs
    \/ Stringify

Spec == Init /\ [][Next]_vars

(***************************************************************************)
(* Properties of convertSchemaToJSON and getStringifiedSchema.             *)
(***************************************************************************)

\* The dot-separated segments of the i-th input descriptor's name.
FieldPath(i) == Split(fields[i].name.s, Dot)

\* The type a descriptor declares: "any" when absent or empty.
DeclaredType(f) ==
    IF f.type.t = "undefined" \/ f.type.s = <<>> THEN TypeAny ELSE f.type.s

\* Two paths touch when one is the other or lies above it.
Touches(p, q) == p = q \/ IsProperPrefix(p, q) \/ IsProperPrefix(q, p)

HoldsTerminal(t, p) == HasOwn(t, p) /\ t[OwnIndex(t, p)].leaf
HoldsMapping(t, p) == HasOwn(t, p) /\ ~t[OwnIndex(t, p)].leaf
TerminalAt(t, p) == t[OwnIndex(t, p)].type

\* Pairs i < j of descriptors with the same full name that no other
\* descriptor touches.
CollidingPairs ==
    { pr \in (1..Len(fields)) \X (1..Len(fields)) :
        /\ pr[1] < pr[2]
        /\ fields[pr[1]].name = fields[pr[2]].name
        /\ \A k \in 1..Len(fields) :
              k \notin {pr[1], pr[2]} => ~Touches(FieldPath(k), FieldPath(pr[1])) }

DistinctPrefixFree ==
    \A i, j \in 1..Len(fields) :
        i # j => /\ fields[i].name # fields[j].name
                 /\ ~IsProperPrefix(FieldPath(i), FieldPath(j))

\* C2: for names that are pairwise distinct and prefix-free the returned tree
\* mirrors the names: every descriptor's path ends at a terminal equal to its
\* type, every intermediate segment is a nested mapping, and the tree holds no
\* other terminal.
C2_TreeMirrorsNames ==
    (pc = "returned" /\ DistinctPrefixFree) =>
        /\ \A i \in 1..Len(fields) :
              /\ HoldsTerminal(defs, FieldPath(i))
              /\ TerminalAt(defs, FieldPath(i)) = DeclaredType(fields[i])
              /\ \A n \in 1..(Len(FieldPath(i)) - 1) :
                    HoldsMapping(defs, SubSeq(FieldPath(i), 1, n))
        /\ \A e \in 1..Len(defs) :
              defs[e].leaf => \E i \in 1..Len(fields) : FieldPath(i) = defs[e].path

\* The descriptor the last InsertField step inserted, and its path.
InsertedPath == FieldPath(idx)
JustInserted == pc = "forEach" /\ idx >= 1

\* C3: a descriptor whose full path holds a nested mapping replaces that
\* mapping by its terminal type, and nothing is left below that path.
C3_Collapse ==
    (JustInserted /\ HoldsMapping(prevDefs, InsertedPath)) =>
        /\ HoldsTerminal(defs, InsertedPath)
        /\ TerminalAt(defs, InsertedPath) = DeclaredType(fields[idx])
        /\ \A e \in 1..Len(defs) : ~IsProperPrefix(InsertedPath, defs[e].path)

C3_Witness ==
    /\ JustInserted
    /\ HoldsMapping(prevDefs, InsertedPath)
    /\ \E e \in 1..Len(prevDefs) : IsProperPrefix(InsertedPath, prevDefs[e].path)
    /\ HoldsTerminal(defs, InsertedPath)
    /\ Len(defs) < Len(prevDefs) + 1

\* Some proper dotted prefix of the inserted name held a terminal.
PrefixHeldTerminal ==
    \E n \in 1..(Len(InsertedPath) - 1) :
        HoldsTerminal(prevDefs, SubSeq(InsertedPath, 1, n))

\* C4: a descriptor one of whose proper dotted prefixes holds a terminal is
\* inserted without failing the operation and leaves the whole tree, that
\* terminal included, as it was.
C4_PrefixConflict ==
    (idx >= 1 /\ PrefixHeldTerminal) =>
        /\ pc \in {"forEach", "returned", "rendered"}
        /\ defs = prevDefs

C4_Witness ==
    /\ JustInserted
    /\ PrefixHeldTerminal
    /\ Len(InsertedPath) = 3
    /\ defs = prevDefs
    /\ defs # <<>>

\* An element that lacks a name or has a wrongly typed field.
BadElement(f) ==
    \/ f.name.t # "string"
    \/ f.type.t \notin {"undefined", "string"}
    \/ f.unit.t \notin {"undefined", "string"}
    \/ f.hidden.t \notin {"undefined", "boolean"}
    \/ f.description.t \notin {"undefined", "string"}

\* C5: with a bad element anywhere in the input the operation fails before
\* the tree is created or any key inserted.
C5_ValidationAtomic ==
    (\E i \in 1..Len(fields) : BadElement(fields[i])) =>
        /\ pc \in {"start", "failed"}
        /\ ~defsCreated
        /\ defs = <<>>
        /\ idx = 0

C5_Witness ==
    /\ pc = "failed"
    /\ Len(fields) = 3
    /\ ~BadElement(fields[1])
    /\ ~BadElement(fields[2])
    /\ BadElement(fields[3])
    /\ ~defsCreated

\* ---- reading the rendered text back ----
Lines(txt) == Split(txt, NL)

RECURSIVE LeadingSpaces(_)
LeadingSpaces(line) ==
    IF line # <<>> /\ Head(line) = Space THEN 1 + LeadingSpaces(Tail(line)) ELSE 0

RECURSIVE UpToColon(_)
UpToColon(line) ==
    IF line = <<>> \/ Head(line) = ":" THEN <<>>
    ELSE <<Head(line)>> \o UpToColon(Tail(line))

IsKeyLine(line) == \E i \in 1..Len(line) : line[i] = ":"

\* The key lines of a text, top to bottom: [indent, key].
KeyLine(line) ==
    [indent |-> LeadingSpaces(line),
     key |-> UpToColon(SubSeq(line, LeadingSpaces(line) + 1, Len(line)))]

KeyLinesOf(txt) ==
    LET kl == SelectSeq(Lines(txt), IsKeyLine) IN
    [i \in 1..Len(kl) |-> KeyLine(kl[i])]

RECURSIVE FlattenSeqs(_)
FlattenSeqs(ss) == IF ss = <<>> THEN <<>> ELSE Head(ss) \o FlattenSeqs(Tail(ss))

RECURSIVE CreationOrderKeys(_, _, _)
\* The keys of the block at path p (depth d) and of the blocks below it, each
\* block's direct keys in the order in which they were first created.
CreationOrderKeys(t, p, d) ==
    LET own == ChildEntries(t, p) IN
    FlattenSeqs([i \in 1..Len(own) |->
        <<[indent |-> 2 * d, key |-> LastKey(own[i])]>>
            \o (IF own[i].leaf THEN <<>> ELSE CreationOrderKeys(t, own[i].path, d + 1))])

\* C6: in the rendered text the direct keys of every block appear in the
\* order in which they were first created during insertion.
C6_OrderPreserved ==
    pc = "rendered" => KeyLinesOf(text) = CreationOrderKeys(defs, <<>>, 1)

Indented(d, rest) == Repeat(Space, 2 * d) \o rest

RECURSIVE LayoutAsStated(_, _, _)
\* The lines between the braces of the block at path p, depth d, as C7
\* states them: one line per direct key and nothing else.
LayoutAsStated(t, p, d) ==
    LET es == ObjectEntries(t, p) IN
    FlattenSeqs([i \in 1..Len(es) |->
        IF es[i].leaf
        THEN << Indented(d, LastKey(es[i]) \o <<":", Space>> \o es[i].type \o <<";">>) >>
        ELSE << Indented(d, LastKey(es[i]) \o <<":", Space, "{">>) >>
                 \o LayoutAsStated(t, es[i].path, d + 1)
                 \o << Indented(d, <<"}", ";">>) >>])

RECURSIVE LayoutAmended(_, _, _)
\* The same, a block without keys holding one empty line.
LayoutAmended(t, p, d) ==
    LET es == ObjectEntries(t, p) IN
    IF es = <<>> THEN << <<>> >>
    ELSE FlattenSeqs([i \in 1..Len(es) |->
        IF es[i].leaf
        THEN << Indented(d, LastKey(es[i]) \o <<":", Space>> \o es[i].type \o <<";">>) >>
        ELSE << Indented(d, LastKey(es[i]) \o <<":", Space, "{">>) >>
                 \o LayoutAmended(t, es[i].path, d + 1)
                 \o << Indented(d, <<"}", ";">>) >>])

\* C7 as stated: the text is '{', one line per direct key, '}'; a key at depth
\* d is indented 2*d spaces, a terminal renders as '<key>: <type>;', a nested
\* key as '<key>: ' and its block, closed by a brace indented 2*d spaces and
\* ';'; the root's closing brace is not indented.
C7_Layout ==
    pc = "rendered" =>
        Lines(text) = << <<"{">> >> \o LayoutAsStated(defs, <<>>, 1) \o << <<"}">> >>

\* C7 amended: the same layout for every block that has a key; a block
\* without keys renders as '{', one empty line and its closing brace.
C7_LayoutAmended ==
    pc = "rendered" =>
        Lines(text) = << <<"{">> >> \o LayoutAmended(defs, <<>>, 1) \o << <<"}">> >>

C7_Witness ==
    /\ pc = "rendered"
    /\ \E e \in 1..Len(defs) : Len(defs[e].path) = 3 /\ defs[e].leaf
    /\ \E e \in 1..Len(defs) : Len(defs[e].path) = 1 /\ defs[e].leaf
    /\ Len(Lines(text)) >= 8

\* The last InsertField step wrote a terminal at the inserted path.
WroteTerminal ==
    /\ JustInserted
    /\ HoldsTerminal(defs, InsertedPath)
    /\ ~HoldsTerminal(prevDefs, InsertedPath)

\* C8: the terminal written for a descriptor is "any" when its type is absent
\* or the empty string, and exactly its type otherwise.
C8_TypeDefault ==
    WroteTerminal =>
        TerminalAt(defs, InsertedPath) =
            (IF fields[idx].type.t = "undefined" THEN TypeAny
             ELSE IF fields[idx].type.s = <<>> THEN TypeAny
             ELSE fields[idx].type.s)

C8_Witness ==
    /\ WroteTerminal
    /\ fields[idx].type = JString(<<>>)
    /\ TerminalAt(defs, InsertedPath) = TypeAny
    /\ \E i \in 1..idx : fields[i].type = JString(TypeInt)
                          /\ HoldsTerminal(defs, FieldPath(i))
                          /\ TerminalAt(defs, FieldPath(i)) = TypeInt

(***************************************************************************)
(* The server process, step by step.                                       *)
(***************************************************************************)
FlattenIdle ==
    /\ fields = <<>>
    /\ pc = "off"
    /\ validatedFields = <<>>
    /\ defsCreated = FALSE
    /\ defs = <<>>
    /\ idx = 0
    /\ prevDefs = <<>>
    /\ text = <<>>

ServerInit ==
    /\ spc = "launch"
    /\ configFile \in ConfigFiles
    /\ env \in InitialEnvs
    /\ config = NoConfig
    /\ queryLimiter = NoLimiter
    /\ datasetsLimiter = NoLimiter
    /\ now = 0
    /\ lastCall = NoCall
    /\ passedLog = NoPasses
    /\ FlattenIdle

\* The launcher: with a config file, every entry becomes an environment
\* variable; a file that cannot be read or parsed ends the process.
LoadConfigFile ==
    /\ spc = "launch"
    /\ IF ~configFile.given THEN env' = env /\ spc' = "require"
       ELSE IF ~configFile.readable THEN env' = env /\ spc' = "exited"
       ELSE env' = ApplyConfigEntries(env, configFile.entries) /\ spc' = "require"
    /\ UNCHANGED <<configFile, config, queryLimiter, datasetsLimiter, now, lastCall, passedLog>>
    /\ UNCHANGED flattenVars

\* const config = { token: process.env.AXIOM_TOKEN, ... };
BuildConfig ==
    /\ spc = "require"
    /\ config' = ConfigFromEnv(env)
    /\ spc' = "configured"
    /\ UNCHANGED <<configFile, env, queryLimiter, datasetsLimiter, now, lastCall, passedLog>>
    /\ UNCHANGED flattenVars

\* if (!config.token) { ...; process.exit(1); }
CheckToken ==
    /\ spc = "configured"
    /\ spc' = IF config.token.def /\ config.token.s # <<>> THEN "tokenOk" ELSE "exited"
    /\ UNCHANGED <<configFile, env, config, queryLimiter, datasetsLimiter, now, lastCall,
                   passedLog>>
    /\ UNCHANGED flattenVars

\* const queryLimiter = new RateLimiter({...}); const datasetsLimiter = ...
BuildLimiters ==
    /\ spc = "tokenOk"
    /\ queryLimiter' = NewRateLimiter(QueryTokensPerInterval(config), now)
    /\ datasetsLimiter' = NewRateLimiter(DatasetsTokensPerInterval(config), now)
    /\ spc' = "serving"
    /\ UNCHANGED <<configFile, env, config, now, lastCall, passedLog>>
    /\ UNCHANGED flattenVars

\* One more call passed limiter l during the current second.
LogPass(log, l, t) == [log EXCEPT ![l][t] = @ + 1]

\* What one run of a handler did: the limiter it leaves, whether
\* tryRemoveTokens(1) returned true (`removed`), how the handler ended
\* (`outcome`) and whether it made its upstream call (`upstream`).
HandlerResult(l, removed, outcome, upstream) ==
    [limiter |-> l, removed |-> removed, outcome |-> outcome, upstream |-> upstream]

\* Mutant: the empty-query check comes before the rate-limit check.
QueryAplHandlerEmptyFirst(l, t, empty) ==
    IF empty THEN HandlerResult(l, FALSE, "empty_query", FALSE)
    ELSE LET r == TryRemoveTokens(l, t) IN
         IF ~r.ok THEN HandlerResult(r.limiter, FALSE, "rate_limited", FALSE)
         ELSE HandlerResult(r.limiter, TRUE, "upstream", TRUE)

\* The queryApl handler up to its upstream call, `empty` saying !query:
\* tryRemoveTokens, then "Rate limit exceeded for queries", then "Query must
\* not be empty", then client.query(query).
QueryAplHandler(l, t, empty) ==
    LET r == TryRemoveTokens(l, t) IN
    IF ~r.ok THEN HandlerResult(r.limiter, FALSE, "rate_limited", FALSE)
    ELSE IF empty THEN HandlerResult(r.limiter, TRUE, "empty_query", FALSE)
    ELSE HandlerResult(r.limiter, TRUE, "upstream", TRUE)

\* The listDatasets and getDatasetInfoAndSchema handlers up to their upstream
\* call: tryRemoveTokens, then "Rate limit exceeded for dataset operations",
\* then client.datasets.list() or fetch(...).
DatasetsHandler(l, t) ==
    LET r == TryRemoveTokens(l, t) IN
    IF ~r.ok THEN HandlerResult(r.limiter, FALSE, "rate_limited", FALSE)
    ELSE HandlerResult(r.limiter, TRUE, "upstream", TRUE)

\* The status the HTTP server answers with when the handler ends this way
\* before or at its upstream call (200 standing for the upstream's answer).
HttpStatus(outcome) ==
    CASE outcome = "rate_limited" -> 429
      [] outcome = "empty_query" -> 400
      [] OTHER -> 200

CallRecord(tool, h) ==
    [tool |-> tool, outcome |-> h.outcome, removed |-> h.removed, upstream |-> h.upstream]

\* One invocation of queryApl.
CallQueryApl ==
    /\ spc = "serving"
    /\ \E empty \in BOOLEAN :
          LET h == QueryAplHandler(queryLimiter, now, empty) IN
          /\ queryLimiter' = h.limiter
          /\ passedLog' = IF h.removed THEN LogPass(passedLog, "query", now) ELSE passedLog
          /\ lastCall' = CallRecord("queryApl", h)
    /\ UNCHANGED <<spc, configFile, env, config, datasetsLimiter, now>>
    /\ UNCHANGED flattenVars

\* One invocation of listDatasets or of getDatasetInfoAndSchema.
CallDatasetsTool ==
    /\ spc = "serving"
    /\ \E tool \in {"listDatasets", "getDatasetInfoAndSchema"} :
          LET h == DatasetsHandler(datasetsLimiter, now) IN
          /\ datasetsLimiter' = h.limiter
          /\ passedLog' = IF h.removed THEN LogPass(passedLog, "datasets", now) ELSE passedLog
          /\ lastCall' = CallRecord(tool, h)
    /\ UNCHANGED <<spc, configFile, env, config, queryLimiter, now>>
    /\ UNCHANGED flattenVars

\* A second passes.
Tick ==
    /\ spc = "serving"
    /\ now < MaxSeconds
    /\ now' = now + 1
    /\ UNCHANGED <<spc, configFile, env, config, queryLimiter, datasetsLimiter, lastCall,
                   passedLog>>
    /\ UNCHANGED flattenVars

ServerNext ==
    \/ LoadConfigFile
    \/ BuildConfig
    \/ CheckToken
    \/ BuildLimiters
    \/ CallQueryApl
    \/ CallDatasetsTool
    \/ Tick

ServerSpec == ServerInit /\ [][ServerNext]_vars

(***************************************************************************)
(* Properties of the configuration and of the limiters.                    *)
(***************************************************************************)
RECURSIVE PassedBetween(_, _, _)
\* The calls that passed limiter l in the seconds s..e.
PassedBetween(l, s, e) ==
    IF s > e THEN 0 ELSE passedLog[l][s] + PassedBetween(l, s + 1, e)

\* The rate and the burst the environment documents for a limiter.
DocumentedRate(rateName) == ParseFloat(EnvOr(env, rateName, DefaultNumber))
DocumentedBurst(burstName) == ParseInt(EnvOr(env, burstName, DefaultNumber))

WithinDocumentedLimit(l, rateName, burstName) ==
    \A s \in 0..now : \A e \in s..now :
        PassedBetween(l, s, e)
            <= DocumentedBurst(burstName) + (e - s) * DocumentedRate(rateName)

\* C9: over any window of n seconds at most AXIOM_QUERY_BURST +
\* n * AXIOM_QUERY_RATE queryApl invocations pass the rate-limit check, and at
\* most AXIOM_DATASETS_BURST + n * AXIOM_DATASETS_RATE dataset operations.
C9_RateAndBurst ==
    spc = "serving" =>
        /\ WithinDocumentedLimit("query", AXIOM_QUERY_RATE, AXIOM_QUERY_BURST)
        /\ WithinDocumentedLimit("datasets", AXIOM_DATASETS_RATE, AXIOM_DATASETS_BURST)

FileHas(key) == \E i \in 1..Len(configFile.entries) : configFile.entries[i].key = key
FileValue(key) ==
    configFile.entries[CHOOSE i \in 1..Len(configFile.entries) :
                           configFile.entries[i].key = key].value

\* C10: launched with a config file, every documented key of the file sets
\* the corresponding value of the configuration the server reads at start-up.
C10_ConfigFileApplied ==
    (spc \in {"configured", "tokenOk", "serving"} /\ configFile.given) =>
        /\ FileHas(KeyToken) => config.token = [def |-> TRUE, s |-> FileValue(KeyToken).s]
        /\ FileHas(KeyUrl) => config.url = FileValue(KeyUrl).s
        /\ FileHas(KeyOrgId) => config.orgId = [def |-> TRUE, s |-> FileValue(KeyOrgId).s]
        /\ FileHas(KeyQueryRate) => config.queryRateLimit = FileValue(KeyQueryRate).n
        /\ FileHas(KeyQueryBurst) => config.queryRateBurst = FileValue(KeyQueryBurst).n
        /\ FileHas(KeyDatasetsRate) => config.datasetsRateLimit = FileValue(KeyDatasetsRate).n
        /\ FileHas(KeyDatasetsBurst) =>
              config.datasetsRateBurst = FileValue(KeyDatasetsBurst).n

\* The limiter a tool draws from.
LimiterOfTool(tool) == IF tool = "queryApl" THEN queryLimiter ELSE datasetsLimiter

\* C11: in every tool invocation the upstream call is made only after a token
\* was removed from the tool's limiter in that invocation; an invocation that
\* finds no token ends with the rate-limit error (429 over HTTP) and makes no
\* upstream call; the rate-limit check precedes the empty-query check, so an
\* empty query has consumed a token.
C11_RateLimitGate ==
    (spc = "serving" /\ lastCall.tool # "none") =>
        /\ lastCall.upstream => lastCall.removed
        /\ ~lastCall.removed =>
              /\ lastCall.outcome = "rate_limited"
              /\ ~lastCall.upstream
              /\ HttpStatus(lastCall.outcome) = 429
        /\ lastCall.outcome = "empty_query" => lastCall.removed
        /\ lastCall.removed =>
              /\ LimiterOfTool(lastCall.tool).tokensThisInterval >= 1
              /\ LimiterOfTool(lastCall.tool).content
                     < LimiterOfTool(lastCall.tool).bucketSize

C11_Witness ==
    /\ spc = "serving"
    /\ lastCall.tool = "queryApl"
    /\ lastCall.outcome = "rate_limited"
    /\ ~lastCall.removed
    /\ passedLog["query"][now] = 2
    /\ passedLog["datasets"][now] >= 1

\* C12: after each insertion, and so in the returned and rendered tree, every
\* nested mapping below the root holds at least one key.
C12_NoEmptyNestedMapping ==
    pc \in {"forEach", "returned", "rendered"} =>
        \A e \in 1..Len(defs) :
            ~defs[e].leaf => ChildEntries(defs, defs[e].path) # <<>>

====
